---- MODULE Spec2Model ----
(***************************************************************************)
(* Deck<T> of src/src/Deck.mts: an ordered pile of cards held in the       *)
(* private array #cards (index 0 = bottom, last index = top), the          *)
(* operations on it, and a caller that still holds the array it passed to  *)
(* the constructor and the arrays toList() handed back.                    *)
(* TLA+ sequences are 1-based: cards[1] is the bottom, cards[Len] the top. *)
(***************************************************************************)
EXTENDS Integers, Sequences, FiniteSets, TLC

\* ------------------------------------------------------------- bounds
MaxLen == 3
MaxCard == 2
MaxNeg == 1
MaxOver == 1

\* ------------------------------------------------------------- values
\* JavaScript's null: what draw/peek/pull return on an empty deck.  T is
\* unconstrained, so null may also be a card (Deck<number | null>).
Null == 0

Cards == 1..MaxCard

Elems == {Null} \cup Cards

Seqs == UNION {[1..n -> Elems] : n \in 0..MaxLen}

Counts == (0 - MaxNeg)..(MaxLen + MaxOver)

\* A predicate (card: T) => boolean, given by the set of cards it accepts.
Predicates == SUBSET Elems

CountError == "Count must be non-negative"

NoError == ""

Min(a, b) == IF a < b THEN a ELSE b

Max(a, b) == IF a > b THEN a ELSE b

RECURSIVE Reverse(_)
Reverse(s) == IF s = <<>> THEN <<>> ELSE Append(Reverse(Tail(s)), Head(s))

\* The outcome of one method call: the array #cards afterwards, the value
\* returned (single card or null), the array returned, the error thrown.
Result(c, r, l, e) == [cards |-> c, ret |-> r, list |-> l, err |-> e]

\* ------------------------------------------------------------- methods
\* constructor(cards): this.#cards = cards.  The deck keeps the caller's array
\* itself (shared), not a copy of it.
constructor(S) == [cards |-> S, shared |-> TRUE]

\* Array.prototype.pop on a non-empty array: the array without its last slot.
pop(s) == SubSeq(s, 1, Len(s) - 1)

\* Array.prototype.at(-1) on a non-empty array.
atLast(s) == s[Len(s)]

BadDrawKeeps(s) == IF Len(s) = 0 THEN Result(s, Null, <<>>, NoError)
                   ELSE Result(Tail(s), atLast(s), <<>>, NoError)
draw(s) == IF Len(s) = 0 THEN Result(s, Null, <<>>, NoError)
           ELSE Result(pop(s), atLast(s), <<>>, NoError)

BadCountInvalid(count) == count < -1
countInvalid(count) == count < 0

\* Array.from({ length: count }, () => this.draw()): count successive draws,
\* their results in call order (a length below 0 is an empty array).
RECURSIVE drawRepeat(_, _)
drawRepeat(s, n) ==
    IF n <= 0 THEN [cards |-> s, list |-> <<>>]
    ELSE LET d == draw(s)
             r == drawRepeat(d.cards, n - 1)
         IN [cards |-> r.cards, list |-> <<d.ret>> \o r.list]

\* .filter((c) => c !== null)
notNull(l) == SelectSeq(l, LAMBDA c : c # Null)

drawMany(s, count) ==
    IF countInvalid(count) THEN Result(s, Null, <<>>, CountError)
    ELSE LET r == drawRepeat(s, count)
         IN Result(r.cards, Null, notNull(r.list), NoError)

BadPeekPops(s) == draw(s)
peek(s) == IF Len(s) = 0 THEN Result(s, Null, <<>>, NoError)
           ELSE Result(s, atLast(s), <<>>, NoError)

\* Array.prototype.slice(start) with no end: a negative start counts from the
\* end, clamped at 0; a start of 0 (which is what -0 is) is the whole array.
BadSliceHead(s, start) == SubSeq(s, 1, Min(IF start < 0 THEN 0 - start ELSE Len(s), Len(s)))
slice(s, start) ==
    LET len == Len(s)
        k == IF start < 0 THEN Max(len + start, 0) ELSE Min(start, len)
    IN SubSeq(s, k + 1, len)

BadPeekManyReversed(s, count) ==
    IF countInvalid(count) THEN Result(s, Null, <<>>, CountError)
    ELSE Result(s, Null, Reverse(slice(s, 0 - count)), NoError)
peekMany(s, count) ==
    IF countInvalid(count) THEN Result(s, Null, <<>>, CountError)
    ELSE Result(s, Null, slice(s, 0 - count), NoError)

BadPlaceOnTopUnshifts(s, card) == Result(<<card>> \o s, Null, <<>>, NoError)
placeOnTop(s, card) == Result(Append(s, card), Null, <<>>, NoError)

BadPlaceOnBottomPushes(s, card) == Result(Append(s, card), Null, <<>>, NoError)
placeOnBottom(s, card) == Result(<<card>> \o s, Null, <<>>, NoError)

\* this.#cards = this.#cards.filter(...): a new array replaces the old one.
BadRemoveKeepsMatching(s, P) == Result(SelectSeq(s, LAMBDA c : c \in P), Null, <<>>, NoError)
remove(s, P) == Result(SelectSeq(s, LAMBDA c : c \notin P), Null, <<>>, NoError)

BadIsEmptyAtMostOne(s) == Len(s) <= 1
isEmpty(s) == Len(s) = 0

size(s) == Len(s)

\* [...this.#cards]: the same cards in a new array ("fresh"), never #cards itself.
BadToListShares(s) == [list |-> s, ref |-> "cards"]
toList(s) == [list |-> s, ref |-> "fresh"]

\* pull(predicate) is called by Deck.test.mts but is not in Deck.mts; modelled
\* from the specification: scan from the top toward the bottom, remove and
\* return the first card the predicate accepts, null when there is none.
RECURSIVE BadScanFromBottom(_, _, _)
BadScanFromBottom(s, P, i) ==
    IF i = 0 THEN 0
    ELSE LET j == Len(s) - i + 1
         IN IF s[j] \in P THEN j ELSE BadScanFromBottom(s, P, i - 1)
RECURSIVE scanFromTop(_, _, _)
scanFromTop(s, P, i) ==
    IF i = 0 THEN 0
    ELSE IF s[i] \in P THEN i ELSE scanFromTop(s, P, i - 1)

pull(s, P) ==
    LET i == scanFromTop(s, P, Len(s))
    IN IF i = 0 THEN Result(s, Null, <<>>, NoError)
       ELSE Result(SubSeq(s, 1, i - 1) \o SubSeq(s, i + 1, Len(s)), s[i], <<>>, NoError)

\* pullAll(predicate) is called by Deck.test.mts but is not in Deck.mts; modelled
\* from the specification: every card the predicate accepts is removed and
\* returned, nearest-to-top first; the others stay in their order.
BadPullAllBottomFirst(s, P) ==
    Result(SelectSeq(s, LAMBDA c : c \notin P), Null,
           SelectSeq(s, LAMBDA c : c \in P), NoError)
pullAll(s, P) ==
    Result(SelectSeq(s, LAMBDA c : c \notin P), Null,
           Reverse(SelectSeq(s, LAMBDA c : c \in P)), NoError)

\* Math.random() yields a number in [0, 1): here q / Grain for q in 0..Grain-1.
Grain == MaxLen

RandomValues == 0..(Grain - 1)

\* Math.floor(Math.random() * (i + 1)): the indices it can give, Math.random()
\* being any q / Grain.
randomIndex(i) == {(q * (i + 1)) \div Grain : q \in RandomValues}

\* [a[i], a[j]] = [a[j], a[i]], i and j being 0-based indices.
BadSwapCopies(s, i, j) == [s EXCEPT ![i + 1] = s[j + 1]]
swap(s, i, j) == [s EXCEPT ![i + 1] = s[j + 1], ![j + 1] = s[i + 1]]

\* The loop test of shuffle: i > 0.
BadShuffleTestIncludesZero(i) == i >= 0
shuffleTest(i) == i > 0

\* for (let i = ...; i > 0; i--) { j = random index; swap }: every outcome the
\* loop can have from index i on, one per choice of the random indices; picks
\* are the indices j drawn, one per call of Math.random().
RECURSIVE shuffleLoop(_, _)
shuffleLoop(s, i) ==
    IF ~shuffleTest(i) THEN {[cards |-> s, picks |-> <<>>]}
    ELSE UNION {{[cards |-> r.cards, picks |-> <<j>> \o r.picks] :
                    r \in shuffleLoop(swap(s, i, j), i - 1)} :
                j \in randomIndex(i)}

\* The outcomes of shuffle(): #cards afterwards and, as list, the indices drawn.
shuffle(s) ==
    {Result(r.cards, Null, r.picks, NoError) : r \in shuffleLoop(s, Len(s) - 1)}

\* The loop test of the generator: i > 0.
BadIterTestStopsEarly(i) == i > 1
iterTest(i) == i > 0

\* One next() on the generator *[Symbol.iterator]: started from "created" it
\* sets i = this.#cards.length, resumed from "suspended" (at the yield) it does
\* i--; then, if i > 0, it yields this.draw(), else it returns (done).
iterNext(s, it) ==
    LET i == IF it.state = "created" THEN Len(s) ELSE it.i - 1
    IN IF iterTest(i)
       THEN LET d == draw(s)
            IN [cards |-> d.cards, ret |-> d.ret, done |-> FALSE,
                iter |-> [state |-> "suspended", i |-> i]]
       ELSE [cards |-> s, ret |-> Null, done |-> TRUE,
             iter |-> [state |-> "done", i |-> i]]

\* ------------------------------------------------------------- the caller
\* What a caller can do to an array it holds: push(x), pop(), a[i] = x.
Mutations ==
    [kind : {"push"}, i : {0}, x : Elems]
    \cup [kind : {"pop"}, i : {0}, x : {Null}]
    \cup [kind : {"set"}, i : 1..MaxLen, x : Elems]

mutate(s, m) ==
    CASE m.kind = "push" -> Append(s, m.x)
      [] m.kind = "pop" -> pop(s)
      [] m.kind = "set" -> [s EXCEPT ![m.i] = m.x]

\* The mutation is possible on array s and keeps it within the model's bound.
canMutate(s, m) ==
    CASE m.kind = "push" -> Len(s) < MaxLen
      [] m.kind = "pop" -> TRUE
      [] m.kind = "set" -> m.i <= Len(s)

\* ------------------------------------------------------------- state
VARIABLES
    cards,        \* the contents of this.#cards
    inputShared,  \* the array passed to the constructor is this.#cards itself
    listRef,      \* the array toList() last returned: "none", "fresh" (its own
                  \* array) or "cards" (this.#cards itself)
    last,         \* the last call: its name, arguments, #cards before it, results
    iter,         \* the generator of the deck's iterator: state "none" (no
                  \* generator), "created", "suspended" (at the yield) or "done",
                  \* and its loop variable i
    touched,      \* another call was made on the deck since the generator began
                  \* to run
    run           \* of an iteration no other call has touched: #cards when the
                  \* generator read its length (start) and the number of values
                  \* yielded since (yields); NoRun once touched

vars == <<cards, inputShared, listRef, last, iter, touched, run>>

iterVars == <<iter, touched, run>>

NoIterator == [state |-> "none", i |-> 0]

NoRun == [start |-> <<>>, yields |-> 0]

\* An array that is not this.#cards cannot be reached from the deck: its
\* contents are no part of the deck's state and are not tracked.

Call(op, count, card, pred, pre, res) ==
    [op |-> op, count |-> count, card |-> card, pred |-> pred, pre |-> pre,
     ret |-> res.ret, list |-> res.list, err |-> res.err,
     num |-> 0, flag |-> FALSE]

Nothing(s) == Result(s, Null, <<>>, NoError)

Init ==
    \E S \in Seqs :
        /\ cards = constructor(S).cards
        /\ inputShared = constructor(S).shared
        /\ listRef = "none"
        /\ last = Call("new", 0, Null, {}, S, Nothing(S))
        /\ iter = NoIterator
        /\ touched = FALSE
        /\ run = NoRun

Draw ==
    LET r == draw(cards)
    IN /\ cards' = r.cards
       /\ last' = Call("draw", 0, Null, {}, cards, r)
       /\ UNCHANGED <<inputShared, listRef>>

DrawMany ==
    \E count \in Counts :
        LET r == drawMany(cards, count)
        IN /\ cards' = r.cards
           /\ last' = Call("drawMany", count, Null, {}, cards, r)
           /\ UNCHANGED <<inputShared, listRef>>

Peek ==
    LET r == peek(cards)
    IN /\ cards' = r.cards
       /\ last' = Call("peek", 0, Null, {}, cards, r)
       /\ UNCHANGED <<inputShared, listRef>>

PeekMany ==
    \E count \in Counts :
        LET r == peekMany(cards, count)
        IN /\ cards' = r.cards
           /\ last' = Call("peekMany", count, Null, {}, cards, r)
           /\ UNCHANGED <<inputShared, listRef>>

PlaceOnTop ==
    \E card \in Elems :
        /\ Len(cards) < MaxLen
        /\ LET r == placeOnTop(cards, card)
           IN /\ cards' = r.cards
              /\ last' = Call("placeOnTop", 0, card, {}, cards, r)
        /\ UNCHANGED <<inputShared, listRef>>

PlaceOnBottom ==
    \E card \in Elems :
        /\ Len(cards) < MaxLen
        /\ LET r == placeOnBottom(cards, card)
           IN /\ cards' = r.cards
              /\ last' = Call("placeOnBottom", 0, card, {}, cards, r)
        /\ UNCHANGED <<inputShared, listRef>>

\* After remove, #cards is a new array: the caller's arrays are no longer it.
Remove ==
    \E P \in Predicates :
        LET r == remove(cards, P)
        IN /\ cards' = r.cards
           /\ last' = Call("remove", 0, Null, P, cards, r)
           /\ inputShared' = FALSE
           /\ listRef' = IF listRef = "cards" THEN "fresh" ELSE listRef

IsEmpty ==
    /\ last' = [Call("isEmpty", 0, Null, {}, cards, Nothing(cards))
                  EXCEPT !.flag = isEmpty(cards)]
    /\ UNCHANGED <<cards, inputShared, listRef>>

Size ==
    /\ last' = [Call("size", 0, Null, {}, cards, Nothing(cards))
                  EXCEPT !.num = size(cards)]
    /\ UNCHANGED <<cards, inputShared, listRef>>

ToList ==
    LET r == toList(cards)
    IN /\ listRef' = r.ref
       /\ last' = Call("toList", 0, Null, {}, cards, Result(cards, Null, r.list, NoError))
       /\ UNCHANGED <<cards, inputShared>>

Pull ==
    \E P \in Predicates :
        LET r == pull(cards, P)
        IN /\ cards' = r.cards
           /\ last' = Call("pull", 0, Null, P, cards, r)
           /\ UNCHANGED <<inputShared, listRef>>

PullAll ==
    \E P \in Predicates :
        LET r == pullAll(cards, P)
        IN /\ cards' = r.cards
           /\ last' = Call("pullAll", 0, Null, P, cards, r)
           /\ UNCHANGED <<inputShared, listRef>>

\* shuffle reorders #cards in place; last.list holds the indices j it drew and
\* last.num the number of calls of Math.random().
Shuffle ==
    \E r \in shuffle(cards) :
        /\ cards' = r.cards
        /\ last' = [Call("shuffle", 0, Null, {}, cards, r) EXCEPT !.num = Len(r.list)]
        /\ UNCHANGED <<inputShared, listRef>>

\* The caller mutates the array it passed to the constructor.
MutateInput ==
    \E m \in Mutations :
        /\ inputShared => canMutate(cards, m)
        /\ cards' = IF inputShared THEN mutate(cards, m) ELSE cards
        /\ last' = Call("mutateInput", 0, Null, {}, cards, Nothing(cards))
        /\ UNCHANGED <<inputShared, listRef>>

\* The caller mutates the array toList() returned.
MutateList ==
    \E m \in Mutations :
        /\ listRef # "none"
        /\ listRef = "cards" => canMutate(cards, m)
        /\ cards' = IF listRef = "cards" THEN mutate(cards, m) ELSE cards
        /\ last' = Call("mutateList", 0, Null, {}, cards, Nothing(cards))
        /\ UNCHANGED <<inputShared, listRef>>

\* deck[Symbol.iterator](): a new generator; its body has not run yet.
Iterate ==
    /\ iter.state \in {"none", "done"}
    /\ iter' = [state |-> "created", i |-> 0]
    /\ touched' = FALSE
    /\ run' = NoRun
    /\ last' = Call("iterator", 0, Null, {}, cards, Nothing(cards))
    /\ UNCHANGED <<cards, inputShared, listRef>>

\* next() on the generator: last.ret is the value, last.flag is done.
IterNext ==
    /\ iter.state \in {"created", "suspended"}
    /\ LET r == iterNext(cards, iter)
           before == IF iter.state = "created" THEN [start |-> cards, yields |-> 0] ELSE run
       IN /\ cards' = r.cards
          /\ iter' = r.iter
          /\ last' = [Call("next", 0, Null, {}, cards, Result(r.cards, r.ret, <<>>, NoError))
                        EXCEPT !.flag = r.done]
          /\ touched' = IF iter.state = "created" THEN FALSE ELSE touched
          /\ run' = IF touched' THEN NoRun
                    ELSE IF r.done THEN before
                    ELSE [before EXCEPT !.yields = before.yields + 1]
    /\ UNCHANGED <<inputShared, listRef>>

\* Another call on the deck, possibly between two steps of the generator.
Between(call) ==
    /\ call
    /\ iter' = iter
    /\ touched' = (touched \/ iter.state \in {"suspended", "done"})
    /\ run' = IF touched' THEN NoRun ELSE run

\* Calls on the deck with no iterator in use.
Next ==
    \/ Draw /\ UNCHANGED iterVars
    \/ DrawMany /\ UNCHANGED iterVars
    \/ Peek /\ UNCHANGED iterVars
    \/ PeekMany /\ UNCHANGED iterVars
    \/ PlaceOnTop /\ UNCHANGED iterVars
    \/ PlaceOnBottom /\ UNCHANGED iterVars
    \/ Remove /\ UNCHANGED iterVars
    \/ IsEmpty /\ UNCHANGED iterVars
    \/ Size /\ UNCHANGED iterVars
    \/ ToList /\ UNCHANGED iterVars
    \/ MutateInput /\ UNCHANGED iterVars
    \/ MutateList /\ UNCHANGED iterVars

Spec == Init /\ [][Next]_vars

\* The predicate-driven extractions, among draws and insertions.
NextPull ==
    \/ Pull /\ UNCHANGED iterVars
    \/ PullAll /\ UNCHANGED iterVars
    \/ Draw /\ UNCHANGED iterVars
    \/ PlaceOnTop /\ UNCHANGED iterVars
    \/ PlaceOnBottom /\ UNCHANGED iterVars

SpecPull == Init /\ [][NextPull]_vars

\* Shuffles, among draws and insertions.
NextShuffle ==
    \/ Shuffle /\ UNCHANGED iterVars
    \/ Draw /\ UNCHANGED iterVars
    \/ PlaceOnTop /\ UNCHANGED iterVars
    \/ PlaceOnBottom /\ UNCHANGED iterVars

SpecShuffle == Init /\ [][NextShuffle]_vars

\* The deck consumed through its iterator, other calls in between.
NextIter ==
    \/ Iterate
    \/ IterNext
    \/ Between(Draw)
    \/ Between(PlaceOnTop)
    \/ Between(PlaceOnBottom)
    \/ Between(Remove)

SpecIter == Init /\ [][NextIter]_vars

TypeOK ==
    /\ cards \in Seqs
    /\ inputShared \in BOOLEAN
    /\ listRef \in {"none", "fresh", "cards"}

\* ------------------------------------------------------------- claims
\* The top k cards of s, in the deck's own bottom-to-top order.
TopOf(s, k) == SubSeq(s, Len(s) - k + 1, Len(s))

\* s without its top k cards.
Below(s, k) == SubSeq(s, 1, Len(s) - k)

\* s without the card at index i, the others in their order.
Without(s, i) == [j \in 1..(Len(s) - 1) |-> IF j < i THEN s[j] ELSE s[j + 1]]

\* The indices of s whose card predicate P accepts.
Matches(s, P) == {i \in 1..Len(s) : s[i] \in P}

Highest(I) == CHOOSE i \in I : \A j \in I : j <= i

\* C1: after new Deck(S) the deck holds an independent copy of S: a mutation
\* the caller makes to S (push, pop, element assignment) leaves the deck's
\* contents, and so toList(), size() and what draw returns, unchanged.
C1_InputIndependent ==
    last.op = "mutateInput" => cards = last.pre

C3_Draw ==
    last.op = "draw" =>
        IF last.pre = <<>>
        THEN last.ret = Null /\ cards = <<>>
        ELSE /\ last.ret = last.pre[Len(last.pre)]
             /\ Len(cards) = Len(last.pre) - 1
             /\ \A i \in 1..Len(cards) : cards[i] = last.pre[i]

\* C3 witness: a draw from a deck of two or more cards whose top differs from
\* its bottom.
C3_Witness ==
    /\ last.op = "draw"
    /\ Len(last.pre) >= 2
    /\ last.pre[1] # last.pre[Len(last.pre)]

\* C4: drawMany(n) with n >= 0 on a deck S returns the last min(n, |S|)
\* elements of S in reverse order (topmost first) and leaves S without them.
C4_DrawManyTop ==
    (last.op = "drawMany" /\ last.count >= 0) =>
        LET k == Min(last.count, Len(last.pre))
        IN /\ last.list = Reverse(TopOf(last.pre, k))
           /\ cards = Below(last.pre, k)

\* C5: drawMany and peekMany with a negative count throw the count error
\* whatever the deck holds, return nothing, and leave the deck as it was.
C5_NegativeCountRejected ==
    (last.op \in {"drawMany", "peekMany"} /\ last.count < 0) =>
        /\ last.err = CountError
        /\ last.list = <<>>
        /\ cards = last.pre

\* C5 witness: a negative count was given to drawMany on a deck with cards.
C5_Witness ==
    /\ last.op = "drawMany"
    /\ last.count < 0
    /\ last.err = CountError
    /\ Len(last.pre) >= 2

\* C6: peekMany(count) with count >= 0 returns exactly min(count, size())
\* elements, never more than count; peekMany(0) returns an empty list.
C6_PeekManyLength ==
    (last.op = "peekMany" /\ last.count >= 0) =>
        Len(last.list) = Min(last.count, Len(last.pre))

\* C7 as stated: peek() returns what draw() would return, and peekMany(n) for
\* n >= 1 returns the top min(n, size()) elements topmost first, which is the
\* order drawMany(n) returns them in.
C7_PeekLikeDraw ==
    /\ last.op = "peek" => last.ret = draw(last.pre).ret
    /\ (last.op = "peekMany" /\ last.count >= 1) =>
           last.list = Reverse(TopOf(last.pre, Min(last.count, Len(last.pre))))

\* C7 as amended: peek() returns what draw() would return on the same
\* contents, and peekMany(n) for n >= 1 returns the top min(n, size())
\* elements bottom-to-top: the cards that min(n, size()) successive draws would
\* take, in the reverse of the order the draws take them.
C7_PeekBottomToTop ==
    /\ last.op = "peek" => last.ret = draw(last.pre).ret
    /\ (last.op = "peekMany" /\ last.count >= 1) =>
           LET k == Min(last.count, Len(last.pre))
           IN /\ Len(last.list) = k
              /\ Reverse(last.list) = drawRepeat(last.pre, k).list

\* C7 witness: peekMany(n) with n above the deck's size, on a deck whose top
\* two cards differ.
C7_Witness ==
    /\ last.op = "peekMany"
    /\ last.count > Len(last.pre)
    /\ Len(last.pre) >= 2
    /\ last.pre[Len(last.pre)] # last.pre[Len(last.pre) - 1]

\* C8: on a deck S of two or more cards, peekMany(n) with 1 <= n <= |S| returns
\* exactly n elements, the last n elements of S in S's own order (S.slice(-n)).
C8_PeekManySlice ==
    (last.op = "peekMany" /\ Len(last.pre) >= 2
       /\ 1 <= last.count /\ last.count <= Len(last.pre)) =>
        /\ Len(last.list) = last.count
        /\ \A i \in 1..last.count :
               last.list[i] = last.pre[Len(last.pre) - last.count + i]

\* C8 witness: peekMany(2) on a deck of three cards, the peeked two differing.
C8_Witness ==
    /\ last.op = "peekMany"
    /\ last.count = 2
    /\ Len(last.pre) = 3
    /\ last.pre[2] # last.pre[3]

\* C9: peek(), peekMany(count) with count >= 0, isEmpty(), size() and toList()
\* leave the deck's contents and order as they were before the call.
C9_QueriesDoNotMutate ==
    (\/ last.op \in {"peek", "isEmpty", "size", "toList"}
     \/ (last.op = "peekMany" /\ last.count >= 0)) =>
        cards = last.pre

\* C9 witness: peek() returned the top card of a deck of two or more cards.
C9_Witness ==
    /\ last.op = "peek"
    /\ Len(last.pre) >= 2
    /\ last.ret # Null

\* C10: pull(predicate) removes and returns the card nearest the top that the
\* predicate accepts, removes nothing else and keeps the order of the rest; it
\* returns null and leaves the deck unchanged when no card is accepted.
C10_PullNearestTop ==
    last.op = "pull" =>
        LET M == Matches(last.pre, last.pred)
        IN IF M = {}
           THEN last.ret = Null /\ cards = last.pre
           ELSE /\ last.ret = last.pre[Highest(M)]
                /\ cards = Without(last.pre, Highest(M))

\* C10 witness: a pull where two different cards are accepted and the one
\* nearest the top is not the top card.
C10_Witness ==
    /\ last.op = "pull"
    /\ \E i, j \in Matches(last.pre, last.pred) : last.pre[i] # last.pre[j]
    /\ Highest(Matches(last.pre, last.pred)) < Len(last.pre)

\* pull repeated for as long as some card is accepted: the cards pulled, in the
\* order pulled, and the deck left.
RECURSIVE PullWhileMatch(_, _)
PullWhileMatch(s, P) ==
    IF Matches(s, P) = {} THEN [cards |-> s, list |-> <<>>]
    ELSE LET r == pull(s, P)
             n == PullWhileMatch(r.cards, P)
         IN [cards |-> n.cards, list |-> <<r.ret>> \o n.list]

\* pull repeated until a call returns null: the values returned before that
\* call, and the deck left after it.
RECURSIVE PullUntilNull(_, _)
PullUntilNull(s, P) ==
    LET r == pull(s, P)
    IN IF r.ret = Null THEN [cards |-> r.cards, list |-> <<>>]
       ELSE LET n == PullUntilNull(r.cards, P)
            IN [cards |-> n.cards, list |-> <<r.ret>> \o n.list]

\* The cards of s that P rejects, in their order.
RECURSIVE Rejected(_, _)
Rejected(s, P) ==
    IF s = <<>> THEN <<>>
    ELSE IF Head(s) \in P THEN Rejected(Tail(s), P)
         ELSE <<Head(s)>> \o Rejected(Tail(s), P)

C12_PlaceOnTop ==
    last.op = "placeOnTop" =>
        /\ Len(cards) = Len(last.pre) + 1
        /\ cards[Len(cards)] = last.card
        /\ \A i \in 1..Len(last.pre) : cards[i] = last.pre[i]
        /\ draw(cards).ret = last.card
        /\ draw(cards).cards = last.pre

\* C12 witness: a card was placed on top of a deck whose top card differs
\* from it.
C12_Witness ==
    /\ last.op = "placeOnTop"
    /\ Len(last.pre) >= 1
    /\ last.pre[Len(last.pre)] # last.card

\* C13: placeOnBottom(x) on a deck S leaves x followed by S; draws alone then
\* return every element of S, topmost first, and x with the last draw that
\* finds a card, after which the deck is empty.
C13_PlaceOnBottom ==
    last.op = "placeOnBottom" =>
        LET n == Len(last.pre)
            r == drawRepeat(cards, n + 1)
        IN /\ Len(cards) = n + 1
           /\ cards[1] = last.card
           /\ \A i \in 1..n : cards[i + 1] = last.pre[i]
           /\ \A k \in 1..n : r.list[k] = last.pre[n - k + 1]
           /\ r.list[n + 1] = last.card
           /\ r.cards = <<>>

\* C13 witness: a card was placed under a deck of two cards that both differ
\* from it.
C13_Witness ==
    /\ last.op = "placeOnBottom"
    /\ Len(last.pre) = 2
    /\ \A i \in 1..2 : last.pre[i] # last.card

\* C14: remove(predicate) on a deck S leaves exactly the elements of S the
\* predicate rejects, in their original order.
C14_Remove ==
    last.op = "remove" =>
        /\ cards = Rejected(last.pre, last.pred)
        /\ \A i \in 1..Len(cards) : cards[i] \notin last.pred

\* C14 witness: remove took a card out from between two cards it left.
C14_Witness ==
    /\ last.op = "remove"
    /\ Len(last.pre) = 3
    /\ last.pre[2] \in last.pred
    /\ Len(cards) = 2
    /\ cards[1] # cards[2]

\* C16: in every reachable state isEmpty() is true exactly when size() is 0,
\* and size() is the length of toList(); the values the calls returned agree.
C16_EmptyIffSizeZero ==
    /\ isEmpty(cards) <=> (size(cards) = 0)
    /\ size(cards) = Len(toList(cards).list)
    /\ last.op = "isEmpty" => (last.flag <=> (size(cards) = 0))
    /\ last.op = "size" => last.num = Len(toList(cards).list)

\* C16 witness: isEmpty() returned false on a deck of one card.
C16_Witness ==
    /\ last.op = "isEmpty"
    /\ ~last.flag
    /\ Len(cards) = 1

\* s with the cards at 0-based indices a and b exchanged.
Exchange(s, a, b) ==
    [x \in 1..Len(s) |->
        IF x = a + 1 THEN s[b + 1] ELSE IF x = b + 1 THEN s[a + 1] ELSE s[x]]

\* Fisher-Yates on s with the drawn indices picks: the k-th pick is for
\* i = Len(s) - k.
RECURSIVE FisherYates(_, _, _)
FisherYates(s, picks, k) ==
    IF k > Len(picks) THEN s
    ELSE FisherYates(Exchange(s, Len(s) - k, picks[k]), picks, k + 1)

\* C18: shuffle() on a deck of length n visits i = n-1 down to 1, draws one
\* index j with 0 <= j <= i at each i and swaps positions i and j: n-1 random
\* draws for n > 1, none and the order unchanged for n <= 1.
C18_FisherYates ==
    last.op = "shuffle" =>
        LET n == Len(last.pre)
        IN /\ last.num = IF n > 1 THEN n - 1 ELSE 0
           /\ Len(last.list) = last.num
           /\ \A k \in 1..last.num : 0 <= last.list[k] /\ last.list[k] <= n - k
           /\ cards = FisherYates(last.pre, last.list, 1)
           /\ n <= 1 => cards = last.pre

\* C18 witness: a shuffle of three cards whose first draw was j = i = 2 and
\* which changed the order.
C18_Witness ==
    /\ last.op = "shuffle"
    /\ Len(last.pre) = 3
    /\ last.list[1] = 2
    /\ cards # last.pre

Occurrences(s, e) == Cardinality({i \in 1..Len(s) : s[i] = e})

\* C19: drawMany(count) returns every element it removes, whatever its value:
\* the number of elements returned is the number removed, min(count, size()).
C19_DrawManyReturnsAllRemoved ==
    (last.op = "drawMany" /\ last.count >= 0) =>
        /\ Len(last.list) = Len(last.pre) - Len(cards)
        /\ Len(last.list) = Min(last.count, Len(last.pre))
        /\ \A e \in Elems :
               Occurrences(last.list, e) + Occurrences(cards, e) = Occurrences(last.pre, e)

\* C20: shuffle() only permutes: the deck afterwards has the same size and
\* holds every value as many times as before, whatever indices were drawn.
C20_ShufflePermutes ==
    last.op = "shuffle" =>
        /\ Len(cards) = Len(last.pre)
        /\ \A e \in Elems : Occurrences(cards, e) = Occurrences(last.pre, e)

\* C20 witness: a shuffle of three cards, not all equal, that changed the
\* order.
C20_Witness ==
    /\ last.op = "shuffle"
    /\ Len(last.pre) = 3
    /\ last.pre[1] # last.pre[3]
    /\ cards # last.pre
    /\ last.list[1] = 0

\* C15: when nothing else touches the deck during iteration, the iterator of a
\* deck S yields exactly |S| elements, the k-th being the k-th from the top
\* (S in reverse), and is done with the deck empty; iterating an empty deck
\* again yields nothing.
C15_IteratorDrains ==
    (last.op = "next" /\ ~touched) =>
        LET n == Len(run.start)
            k == run.yields
        IN IF ~last.flag
           THEN /\ 1 <= k /\ k <= n
                /\ last.ret = run.start[n - k + 1]
                /\ cards = SubSeq(run.start, 1, n - k)
           ELSE /\ k = n
                /\ cards = <<>>

\* C15 witness: an iterator nothing interfered with is done after yielding
\* the two or more cards of a deck whose bottom two differ.
C15_Witness ==
    /\ last.op = "next"
    /\ last.flag
    /\ ~touched
    /\ Len(run.start) >= 2
    /\ run.start[1] # run.start[2]
    /\ run.yields = Len(run.start)

\* C17: with other calls between its steps the iterator still reflects live
\* draws: each step yields what draw() returns at that moment, a value is
\* yielded only while the deck holds cards (never the empty sentinel), and the
\* iterator is done only when the deck is empty.
C17_IteratorLive ==
    last.op = "next" =>
        IF ~last.flag
        THEN last.ret = draw(last.pre).ret /\ last.pre # <<>>
        ELSE cards = <<>>

====
